---- MODULE Spec2Model ----
(***************************************************************************)
(* Model of @savvycodes/guard: the permission evaluator of                  *)
(* packages/core/src/index.ts (can, cannot), and the enforcement adapters   *)
(* built on it (packages/express/src/express.ts,                            *)
(* packages/react/src/index.tsx).                                           *)
(*                                                                          *)
(* JavaScript values are records [t, s, a]: t is the runtime type, s the    *)
(* characters of a string (or the digits of a number), a the elements of    *)
(* an array.  A string is a sequence of characters, so that equality,       *)
(* prefix and substring are different relations in the model.               *)
(***************************************************************************)
EXTENDS Integers, Sequences, FiniteSets, TLC

\* ------------------------------------------------------------------ bounds
MaxScopes   == 2   \* longest held-scope array
MaxGroups   == 2   \* longest outer (OR) list of a required expression
MaxGroupLen == 2   \* longest inner (AND) list / flat list
MaxCallers  == 2   \* callers that use one guard at the same time
MaxListed   == 4   \* longest list a caller makes of a list it was handed

\* ------------------------------------------------------- JavaScript values
Null      == [t |-> "null",      s |-> <<>>, a |-> <<>>]
Undefined == [t |-> "undefined", s |-> <<>>, a |-> <<>>]
Object    == [t |-> "object",    s |-> <<>>, a |-> <<>>]
Str(chars)  == [t |-> "string", s |-> chars,  a |-> <<>>]
Num(digits) == [t |-> "number", s |-> digits, a |-> <<>>]
Arr(elems)  == [t |-> "array",  s |-> <<>>,   a |-> elems]

\* ToBoolean with the empty array taken as falsy, as in other languages
Truthy_emptyArrayFalsy(v) ==
  CASE v.t = "null"      -> FALSE
    [] v.t = "undefined" -> FALSE
    [] v.t = "string"    -> v.s # <<>>
    [] v.t = "number"    -> v.s # <<"0">>
    [] v.t = "array"     -> v.a # <<>>
    [] OTHER             -> TRUE

\* ToBoolean with every string taken as truthy (a test against null only)
Truthy_emptyStringTruthy(v) ==
  CASE v.t = "null"      -> FALSE
    [] v.t = "undefined" -> FALSE
    [] v.t = "number"    -> v.s # <<"0">>
    [] OTHER             -> TRUE

\* ToBoolean of the language: null, undefined, "" and 0 are falsy
Truthy(v) ==
  CASE v.t = "null"      -> FALSE
    [] v.t = "undefined" -> FALSE
    [] v.t = "string"    -> v.s # <<>>
    [] v.t = "number"    -> v.s # <<"0">>
    [] OTHER             -> TRUE

\* === of the language: primitives by value, arrays and objects by identity
\* (two array values of the model are never the same object)
StrictEquals(x, y) ==
  /\ x.t = y.t
  /\ x.t \in {"string", "number", "null", "undefined"}
  /\ x.s = y.s

isString(v) == v.t = "string"
isArray(v)  == v.t = "array"

\* outcome of a call: a returned boolean, or a thrown error
Return(b) == [threw |-> "none", value |-> b]
TypeError == [threw |-> "TypeError", value |-> FALSE]

\* what lodash's every() iterates: the elements of an array, the characters
\* of a string, nothing for null, undefined or a number
Elements(collection) ==
  CASE collection.t = "array"  -> collection.a
    [] collection.t = "string" ->
         [i \in 1..Len(collection.s) |-> Str(<<collection.s[i]>>)]
    [] OTHER -> <<>>

\* every(requiredScopes, isString)
every_isString(collection) ==
  \A i \in 1..Len(Elements(collection)) : isString(Elements(collection)[i])

\* a search that matches a held scope containing the permission as a
\* substring (scope.includes(permission)) instead of being equal to it
ArrayIndexOf_includes(elems, x) ==
  LET Match(e) ==
        \E i \in 0..Len(e.s) :
          i + Len(x.s) <= Len(e.s) /\ SubSeq(e.s, i + 1, i + Len(x.s)) = x.s
  IN IF \E i \in 1..Len(elems) : Match(elems[i])
     THEN (CHOOSE i \in 1..Len(elems) :
             Match(elems[i]) /\ \A j \in 1..(i-1) : ~Match(elems[j])) - 1
     ELSE -1

\* an indexOf that looks at the first element only
ArrayIndexOf_firstOnly(elems, x) ==
  IF elems # <<>> /\ StrictEquals(elems[1], x) THEN 0 ELSE -1

\* Array.prototype.indexOf: index (from 0) of the first === element, or -1
ArrayIndexOf(elems, x) ==
  IF \E i \in 1..Len(elems) : StrictEquals(elems[i], x)
  THEN (CHOOSE i \in 1..Len(elems) :
          /\ StrictEquals(elems[i], x)
          /\ \A j \in 1..(i-1) : ~StrictEquals(elems[j], x)) - 1
  ELSE -1

\* String.prototype.indexOf: index of the first occurrence as a substring
StringIndexOf(chars, sub) ==
  LET At(i) == i + Len(sub) <= Len(chars)
               /\ SubSeq(chars, i + 1, i + Len(sub)) = sub
  IN IF \E i \in 0..Len(chars) : At(i)
     THEN CHOOSE i \in 0..Len(chars) : At(i) /\ \A j \in 0..(i-1) : ~At(j)
     ELSE -1

\* the values that have an indexOf method
hasIndexOf(scopes) == scopes.t \in {"array", "string"}

\* scopes.indexOf(permission)
indexOf(scopes, permission) ==
  IF scopes.t = "array" THEN ArrayIndexOf(scopes.a, permission)
  ELSE IF permission.t = "string" THEN StringIndexOf(scopes.s, permission.s)
  ELSE -1

\* the membership test written `indexOf(permission) > 0`
RECURSIVE every_indexOf_positive(_, _, _)
every_indexOf_positive(scope, scopes, i) ==
  IF i > Len(Elements(scope)) THEN Return(TRUE)
  ELSE IF ~hasIndexOf(scopes) THEN TypeError
  ELSE IF indexOf(scopes, Elements(scope)[i]) > 0
       THEN every_indexOf_positive(scope, scopes, i + 1)
       ELSE Return(FALSE)

\* an every() that rejects the empty group
RECURSIVE every_indexOf_nonEmpty(_, _, _)
every_indexOf_nonEmpty(scope, scopes, i) ==
  IF Len(Elements(scope)) = 0 THEN Return(FALSE)
  ELSE IF i > Len(Elements(scope)) THEN Return(TRUE)
  ELSE IF ~hasIndexOf(scopes) THEN TypeError
  ELSE IF indexOf(scopes, Elements(scope)[i]) # -1
       THEN every_indexOf_nonEmpty(scope, scopes, i + 1)
       ELSE Return(FALSE)

\* an every() that also wants the caller to hold nothing but the group
RECURSIVE every_indexOf_nothingElse(_, _, _)
every_indexOf_nothingElse(scope, scopes, i) ==
  IF i > Len(Elements(scope))
  THEN Return(Len(Elements(scopes)) <= Len(Elements(scope)))
  ELSE IF ~hasIndexOf(scopes) THEN TypeError
  ELSE IF indexOf(scopes, Elements(scope)[i]) # -1
       THEN every_indexOf_nothingElse(scope, scopes, i + 1)
       ELSE Return(FALSE)

\* every(scope, permission => scopes.indexOf(permission) !== -1), from the
\* i-th permission on: stops at the first permission that is not held
RECURSIVE every_indexOf(_, _, _)
every_indexOf(scope, scopes, i) ==
  IF i > Len(Elements(scope)) THEN Return(TRUE)
  ELSE IF ~hasIndexOf(scopes) THEN TypeError
  ELSE IF indexOf(scopes, Elements(scope)[i]) # -1
       THEN every_indexOf(scope, scopes, i + 1)
       ELSE Return(FALSE)

\* a normalisation that makes each element of a flat list its own group
required_flatAsOr(requiredScopes) ==
  IF isString(requiredScopes) THEN Arr(<<Arr(<<requiredScopes>>)>>)
  ELSE IF isArray(requiredScopes) /\ every_isString(requiredScopes)
       THEN Arr([i \in 1..Len(requiredScopes.a) |->
                   Arr(<<requiredScopes.a[i]>>)])
       ELSE requiredScopes

\* the normalisation of the required expression to a list of AND-groups
required(requiredScopes) ==
  IF isString(requiredScopes) THEN Arr(<<Arr(<<requiredScopes>>)>>)
  ELSE IF isArray(requiredScopes) /\ every_isString(requiredScopes)
       THEN Arr(<<requiredScopes>>)
       ELSE requiredScopes

\* required.every(...) in place of required.some(...)
RECURSIVE some_everyGroup(_, _, _)
some_everyGroup(groups, scopes, i) ==
  IF i > Len(groups) THEN Return(TRUE)
  ELSE LET r == every_indexOf(groups[i], scopes, 1)
       IN IF r.threw # "none" THEN r
          ELSE IF ~r.value THEN Return(FALSE)
          ELSE some_everyGroup(groups, scopes, i + 1)

\* required.some(scope => every(scope, ...)), from the i-th group on: stops
\* at the first group that is satisfied
RECURSIVE some(_, _, _)
some(groups, scopes, i) ==
  IF i > Len(groups) THEN Return(FALSE)
  ELSE LET r == every_indexOf(groups[i], scopes, 1)
       IN IF r.threw # "none" THEN r
          ELSE IF r.value THEN Return(TRUE)
          ELSE some(groups, scopes, i + 1)

sufficient(scopes, requiredScopes) ==
  IF ~isArray(required(requiredScopes)) THEN TypeError
  ELSE some(required(requiredScopes).a, scopes, 1)

\* can without the `!scopes` half of its guard
can_noScopesGuard(scopes, requiredScopes) ==
  IF ~Truthy(requiredScopes) THEN Return(FALSE)
  ELSE sufficient(scopes, requiredScopes)

can(scopes, requiredScopes) ==
  IF ~Truthy(requiredScopes) \/ ~Truthy(scopes) THEN Return(FALSE)
  ELSE sufficient(scopes, requiredScopes)

\* a cannot that fails closed by itself when the scopes are missing
cannot_failClosed(scopes, requiredScopes) ==
  LET r == can(scopes, requiredScopes)
  IN IF ~Truthy(scopes) THEN Return(FALSE)
     ELSE IF r.threw # "none" THEN r ELSE Return(~r.value)

cannot(scopes, requiredScopes) ==
  LET r == can(scopes, requiredScopes)
  IN IF r.threw # "none" THEN r ELSE Return(~r.value)

\* ------------------------------------------- definePermissions (index.ts)
\* a definePermissions that never unwraps its first argument
definePermissions_noUnwrap(args) == args

\* args is the array of the arguments (a rest parameter): a single array
\* argument is returned itself, otherwise the arguments are the list
definePermissions(args) ==
  IF Len(args.a) = 1 /\ isArray(args.a[1]) THEN args.a[1] ELSE args

\* export const defineRole = definePermissions
defineRole(args) == definePermissions(args)

\* ------------------------------------------------- createGuard (index.ts)
\* permissionLists.flat(): the elements of the lists, one list after the
\* other
RECURSIVE flat(_)
flat(lists) ==
  IF lists = <<>> THEN <<>> ELSE Head(lists).a \o flat(Tail(lists))

\* [...new Set(items)]: the values in insertion order, a value that is
\* already in the set is not inserted again
RECURSIVE newSet(_, _, _)
newSet(items, i, set) ==
  IF i > Len(items) THEN set
  ELSE newSet(items, i + 1,
              IF \E k \in 1..Len(set) : set[k] = items[i] THEN set
              ELSE Append(set, items[i]))

\* a registry that keeps the last occurrence of a permission, not the first
createGuard_keepsLast(lists) ==
  LET items == flat(lists.a)
      last(k) == \A m \in (k + 1)..Len(items) : items[m] # items[k]
      RECURSIVE pick(_)
      pick(k) == IF k > Len(items) THEN <<>>
                 ELSE IF last(k) THEN <<items[k]>> \o pick(k + 1)
                 ELSE pick(k + 1)
  IN Arr(pick(1))

\* const allPermissions = [...new Set(permissionLists.flat())]
createGuard(lists) == Arr(newSet(flat(lists.a), 1, <<>>))

\* the methods of the guard returned by createGuard; guard stands for the
\* closure they share, which holds allPermissions

\* a can that denies a permission string the registry does not list
guard_can_registryGated(guard, scopes, requiredScopes) ==
  IF /\ isString(requiredScopes)
     /\ ~\E k \in 1..Len(guard.a) : guard.a[k] = requiredScopes
  THEN Return(FALSE)
  ELSE can(scopes, requiredScopes)

guard_can(guard, scopes, requiredScopes) == can(scopes, requiredScopes)

guard_cannot(guard, scopes, requiredScopes) == cannot(scopes, requiredScopes)

\* permissions: () => allPermissions: the list, and whether it is the
\* array the guard keeps (TRUE) or a copy of it (FALSE)
guard_permissions(guard) == [list |-> guard, same |-> TRUE]

\* ------------------------------------------- express adapter (express.ts)
\* an Error object handed to next(): PermissionDeniedError sets code and
\* status, any other error has neither
NoArgument == [name |-> "none", code |-> "", status |-> 0, message |-> ""]
\* a plain Error: no code, no status
PermissionDeniedError_plainError(message) ==
  [name |-> "Error", code |-> "", status |-> 0, message |-> message]

PermissionDeniedError(message) ==
  [name |-> "PermissionDeniedError", code |-> "permission_denied",
   status |-> 403, message |-> message]
DefaultMessage == "Forbidden: Insufficient permissions"
CannotMessage  == "Forbidden: User has permissions they should not have"
ErrorObject(name) == [name |-> name, code |-> "", status |-> 0, message |-> ""]

\* a request carries one property `prop`; its value `user` is undefined,
\* null, a number, or an object with one field `field` of value `value`
Req(prop, user)  == [prop |-> prop, user |-> user]
User(t, field, value) == [t |-> t, field |-> field, value |-> value]
NoUser    == User("undefined", "", Undefined)
NullUser  == User("null", "", Null)
NumberUser == User("number", "", Undefined)
UserObject(field, value) == User("object", field, value)

\* (req as any)[requestProperty]
GetUser(req, requestProperty) ==
  IF req.prop = requestProperty THEN req.user ELSE NoUser

\* user[permissionsProperty], for a truthy user
GetField(user, permissionsProperty) ==
  IF user.t = "object" /\ user.field = permissionsProperty
  THEN user.value ELSE Undefined

\* String.prototype.split(" "): the pieces between single spaces
RECURSIVE split(_, _, _, _)
split(chars, i, piece, pieces) ==
  IF i > Len(chars) THEN Append(pieces, piece)
  ELSE IF chars[i] = " "
       THEN split(chars, i + 1, <<>>, Append(pieces, piece))
       ELSE split(chars, i + 1, Append(piece, chars[i]), pieces)

\* .filter(Boolean) on an array of strings
\* filter without its predicate: every piece is kept
filterBoolean_keepsEmpty(pieces) == pieces

filterBoolean(pieces) == SelectSeq(pieces, LAMBDA p : p # <<>>)

extractPermissions(req, requestProperty, permissionsProperty) ==
  LET user == GetUser(req, requestProperty)
      permissions == GetField(user, permissionsProperty)
  IN IF user.t \in {"undefined", "null"} THEN Arr(<<>>)
     ELSE IF ~Truthy(permissions) THEN Arr(<<>>)
     ELSE IF permissions.t = "string"
          THEN LET tokens == filterBoolean(split(permissions.s, 1, <<>>, <<>>))
               IN Arr([i \in 1..Len(tokens) |-> Str(tokens[i])])
     ELSE IF permissions.t = "array" THEN permissions
     ELSE Arr(<<>>)

\* options?.requestProperty || "user"; an unset option is ""
requestProperty(options) ==
  IF options.requestProperty = "" THEN "user" ELSE options.requestProperty
\* the field name is not configurable
permissionsProperty_fixed(options) == "permissions"

permissionsProperty(options) ==
  IF options.permissionsProperty = "" THEN "permissions"
  ELSE options.permissionsProperty

getPermissions(req, options) ==
  extractPermissions(req, requestProperty(options), permissionsProperty(options))

\* the next function handed to a middleware: next[k] is TRUE when its k-th
\* call throws (a handler calls next at most twice)
NextReturns == <<FALSE, FALSE>>

\* try { if (outcome) next(); else throw denial } catch (error) { next(error) }
\* where outcome is what guardInstance.can or cannot returned or threw:
\* the calls of next, and the error that leaves the handler, if any
tryCatch(outcome, denial, next) ==
  IF outcome.threw # "none"
  THEN [calls   |-> <<ErrorObject(outcome.threw)>>,
        escaped |-> IF next[1] THEN "NextError" ELSE "none"]
  ELSE IF outcome.value
  THEN IF next[1]
       THEN [calls   |-> <<NoArgument, ErrorObject("NextError")>>,
             escaped |-> IF next[2] THEN "NextError" ELSE "none"]
       ELSE [calls |-> <<NoArgument>>, escaped |-> "none"]
  ELSE [calls   |-> <<denial>>,
        escaped |-> IF next[1] THEN "NextError" ELSE "none"]

\* one run of a handler: the scopes it extracted, what the guard answered,
\* the calls of next it made and the error that left it
Run(extracted, outcome, delivery) ==
  [userPermissions |-> extracted, hasPermission |-> outcome,
   calls |-> delivery.calls, escaped |-> delivery.escaped]

\* the check middleware with the branches of its test exchanged
express_check_inverted(req, requiredPermissions, options, next) ==
  LET extracted     == getPermissions(req, options)
      hasPermission == cannot(extracted, requiredPermissions)
  IN Run(extracted, hasPermission,
         tryCatch(hasPermission, PermissionDeniedError(DefaultMessage), next))

express_check(req, requiredPermissions, options, next) ==
  LET extracted     == getPermissions(req, options)
      hasPermission == can(extracted, requiredPermissions)
  IN Run(extracted, hasPermission,
         tryCatch(hasPermission, PermissionDeniedError(DefaultMessage), next))

\* the can middleware without its else branch: next() whatever the answer
express_can_noDeny(req, requiredPermissions, options, next) ==
  LET extracted     == getPermissions(req, options)
      hasPermission == can(extracted, requiredPermissions)
  IN Run(extracted, hasPermission,
         IF hasPermission.threw # "none"
         THEN tryCatch(hasPermission, PermissionDeniedError(DefaultMessage), next)
         ELSE tryCatch(Return(TRUE), PermissionDeniedError(DefaultMessage), next))

express_can(req, requiredPermissions, options, next) ==
  LET extracted     == getPermissions(req, options)
      hasPermission == can(extracted, requiredPermissions)
  IN Run(extracted, hasPermission,
         tryCatch(hasPermission, PermissionDeniedError(DefaultMessage), next))

\* the cannot middleware asking guardInstance.can instead of cannot
express_cannot_asksCan(req, requiredPermissions, options, next) ==
  LET extracted       == getPermissions(req, options)
      lacksPermission == can(extracted, requiredPermissions)
  IN Run(extracted, lacksPermission,
         tryCatch(lacksPermission, PermissionDeniedError(CannotMessage), next))

express_cannot(req, requiredPermissions, options, next) ==
  LET extracted       == getPermissions(req, options)
      lacksPermission == cannot(extracted, requiredPermissions)
  IN Run(extracted, lacksPermission,
         tryCatch(lacksPermission, PermissionDeniedError(CannotMessage), next))

\* a middleware function value: which handler it is, and whether it has an
\* unless method
Handler(fn) == [fn |-> fn, unless |-> FALSE]

\* withUnless without the assignment of the unless method
withUnless_notAttached(middleware) == middleware

\* (middleware as any).unless = unless
withUnless(middleware) == [middleware EXCEPT !.unless = TRUE]

\* how a middleware is mounted: as returned by createGuard, or wrapped by
\* .unless({ path }); and the path of the incoming request
Route(originalUrl, wrapped, path) ==
  [originalUrl |-> originalUrl, wrapped |-> wrapped, path |-> path]
NoUnless == Route("/admin", FALSE, {})

\* express-unless, for the path option: the wrapped middleware is skipped
\* when the path of the request is one of the configured paths
unless(path, originalUrl) == originalUrl \in path

\* ------------------------------------------------ react adapter (index.tsx)
\* the value of PermissionContext seen by a consumer: undefined when there
\* is no enclosing PermissionProvider
NoProvider == [provided |-> FALSE, scopes |-> Undefined]
PermissionProvider(scopes) == [provided |-> TRUE, scopes |-> scopes]

\* the props given to a component: the names of the props, none here
NoProps == <<>>

\* what a component renders: the error it threw, whether the content comes
\* from render, children or a wrapped Component, the kind of content, the
\* argument a function was called with, the props of a wrapped Component
Rendered(threw, from, kind, arg) ==
  [threw |-> threw, from |-> from, kind |-> kind, arg |-> arg,
   props |-> NoProps]
Nothing == Rendered("none", "none", "nothing", FALSE)

\* a hook that answers without a provider
usePermissionContext_noThrow(context) == Return(TRUE)

usePermissionContext(context) ==
  IF ~context.provided THEN [threw |-> "Error", value |-> FALSE]
  ELSE Return(TRUE)

useGuard(context, requiredPermissions) ==
  IF usePermissionContext(context).threw # "none"
  THEN usePermissionContext(context)
  ELSE can(context.scopes, requiredPermissions)

\* a Guard that prefers its children to its render prop
Guard_childrenFirst(context, check, children, render) ==
  LET hasPermission == useGuard(context, check)
      from    == IF children # "undefined" THEN "children" ELSE "render"
      content == IF children # "undefined" THEN children ELSE render
  IN IF hasPermission.threw # "none"
     THEN Rendered(hasPermission.threw, "none", "nothing", FALSE)
     ELSE IF content = "function"
          THEN Rendered("none", from, "function", hasPermission.value)
     ELSE IF hasPermission.value /\ content = "node"
          THEN Rendered("none", from, "node", FALSE)
     ELSE Nothing

\* children and render are "undefined", "null", "node" or "function"
Guard(context, check, children, render) ==
  LET hasPermission == useGuard(context, check)
      from    == IF render # "undefined" THEN "render" ELSE "children"
      content == IF render # "undefined" THEN render ELSE children
  IN IF hasPermission.threw # "none"
     THEN Rendered(hasPermission.threw, "none", "nothing", FALSE)
     ELSE IF content = "function"
          THEN Rendered("none", from, "function", hasPermission.value)
     ELSE IF hasPermission.value /\ content = "node"
          THEN Rendered("none", from, "node", FALSE)
     ELSE Nothing

\* <Component {...props} />
Component(props) ==
  [Rendered("none", "Component", "node", FALSE) EXCEPT !.props = props]

\* a wrapper that renders the Component without the props
withPermission_noProps(context, requiredPermissions, props) ==
  LET hasPermission == useGuard(context, requiredPermissions)
  IN IF hasPermission.threw # "none"
     THEN Rendered(hasPermission.threw, "none", "nothing", FALSE)
     ELSE IF ~hasPermission.value THEN Nothing
     ELSE Component(NoProps)

withPermission(context, requiredPermissions, props) ==
  LET hasPermission == useGuard(context, requiredPermissions)
  IN IF hasPermission.threw # "none"
     THEN Rendered(hasPermission.threw, "none", "nothing", FALSE)
     ELSE IF ~hasPermission.value THEN Nothing
     ELSE Component(props)

\* useMemo(() => compute, deps): the kept value when every dependency is
\* the one of the render before (Object.is: the same array object, the same
\* string), otherwise compute, kept with its dependencies
useMemo(kept, compute, deps) ==
  IF kept.deps = deps THEN kept ELSE [deps |-> deps, value |-> compute]

\* the dependencies [scopes, guard, requiredPermissions] of useGuard as
\* Object.is sees them: the identity of the scopes array, the guard, and the
\* required expression (a string, or an array the consumer keeps from render
\* to render)
Dependencies(scopesProp, requiredPermissions) ==
  <<scopesProp.id, "guard", requiredPermissions>>

\* ------------------------------------------------------------------ inputs
SeqsUpTo(S, n) == UNION { [1..k -> S] : k \in 0..n }

\* permission strings: "", "a", "ab" ("a" is a prefix and substring of "ab")
Permissions == { <<>>, <<"a">>, <<"a", "b">> }
PermissionValues == { Str(p) : p \in Permissions }
\* the permissions that the inner lists of a list of lists are made of
GroupPermissions == { Str(<<"a">>), Str(<<"a", "b">>) }

HeldScopes  == { Arr(q) : q \in SeqsUpTo(PermissionValues, MaxScopes) }
FlatLists   == { Arr(q) : q \in SeqsUpTo(PermissionValues, MaxGroupLen) }
Groups      == { Arr(q) : q \in SeqsUpTo(GroupPermissions, MaxGroupLen) }
NestedLists == { Arr(q) : q \in SeqsUpTo(Groups, MaxGroups) }
RequiredExpressions == PermissionValues \cup FlatLists \cup NestedLists

Absent == { Null, Undefined }
\* values outside the declared types, which callers can still pass
UntypedScopes   == { Num(<<"5">>), Num(<<"0">>), Object, Str(<<"a", "b">>) }
UntypedRequired == { Num(<<"5">>), Num(<<"0">>), Object,
                     Arr(<<Str(<<"a", "b">>), Arr(<<Str(<<"a">>)>>)>>) }

ScopesInputs   == HeldScopes \cup Absent \cup UntypedScopes
RequiredInputs == RequiredExpressions \cup Absent \cup UntypedRequired

\* the scope arrays a request or a provider carries: [], [""], ["a"],
\* ["ab"], ["a", "ab"]
CarriedScopes == { Arr(<<>>), Arr(<<Str(<<>>)>>), Arr(<<Str(<<"a">>)>>),
                   Arr(<<Str(<<"a", "b">>)>>),
                   Arr(<<Str(<<"a">>), Str(<<"a", "b">>)>>) }
\* space-delimited scope strings: "", " ", "a", "a ab", "a  ab "
ScopeStrings == { <<>>, <<" ">>, <<"a">>, <<"a", " ", "a", "b">>,
                  <<"a", " ", " ", "a", "b", " ">>,
                  <<"a", "\t", "a", "b">> }
FieldValues == Absent \cup { Num(<<"5">>), Num(<<"0">>), Object }
                 \cup { Str(c) : c \in ScopeStrings } \cup CarriedScopes
Users == { NoUser, NullUser, NumberUser }
           \cup { UserObject("permissions", v) : v \in FieldValues }
           \cup { UserObject("scope", v) :
                    v \in { Undefined, Str(<<"a">>), Arr(<<Str(<<"a">>)>>) } }
DefaultOptions == [requestProperty |-> "", permissionsProperty |-> ""]
CustomOptions  == [requestProperty |-> "identity", permissionsProperty |-> "scope"]
\* a request under the default property names, or one of a few requests
\* under custom names
Requests ==
  { [req |-> Req("user", u), options |-> DefaultOptions] : u \in Users }
  \cup { [req |-> Req(p, u), options |-> CustomOptions] :
           p \in {"user", "identity"},
           u \in { NoUser, UserObject("scope", Str(<<"a">>)),
                   UserObject("scope", Arr(<<Str(<<"a">>)>>)),
                   UserObject("permissions", Arr(<<Str(<<"a">>)>>)) } }

Contexts == { NoProvider }
              \cup { PermissionProvider(s) :
                       s \in CarriedScopes \cup Absent
                               \cup { Num(<<"5">>), Str(<<"a", "b">>) } }
Contents == { "undefined", "null", "node", "function" }

\* the routes of the model: a request to /public or /admin, through a
\* middleware mounted plainly or with .unless() on some paths
Routes == { Route(u, w, p) :
              u \in {"/public", "/admin"},
              w \in {TRUE},
              p \in { {}, {"/public"}, {"/public", "/login"} } }
            \cup { Route(u, FALSE, {}) : u \in {"/public", "/admin"} }

\* the requests sent through a middleware whose next may throw, or that is
\* mounted with unless: no user, held scopes [], ["a"], ["a", "ab"]
FewRequests ==
  { [req |-> Req("user", u), options |-> DefaultOptions] :
      u \in { NoUser, UserObject("permissions", Arr(<<>>)),
              UserObject("permissions", Arr(<<Str(<<"a">>)>>)),
              UserObject("permissions",
                         Arr(<<Str(<<"a">>), Str(<<"a", "b">>)>>)) } }

\* ------------------------------------------------------------------- state
\* call: the invocation under way; pc: "start" before it runs, "done"
\* after; result: what can/cannot returned or threw; nextCalls: the
\* arguments next was called with; rendered: what the component rendered;
\* next: which calls of the next function throw; escaped: the error that
\* left the handler; userPermissions: the scopes the handler extracted;
\* route: how the middleware is mounted and the path requested
\* permissionLists: the groups createGuard was called with; allPermissions:
\* the registry it built; returned: what permissions() returned last
\* alias: whether the list permissions() returned is the registry's own
\* array; more, again: the held scopes and the result of a second call with
\* the same required expression; callers: the calls under way of the
\* concurrent callers; provider: the props of the PermissionProvider; memo:
\* the dependencies and the value useMemo keeps; props: the props given to a
\* wrapped component
VARIABLES call, pc, result, nextCalls, rendered,
          next, escaped, userPermissions, route,
          permissionLists, allPermissions, returned,
          alias, more, again, callers, provider, memo, props
rest == <<alias, more, again, callers, provider, memo, props>>
vars == <<call, pc, result, nextCalls, rendered,
          next, escaped, userPermissions, route,
          permissionLists, allPermissions, returned, rest>>

NoResult == [threw |-> "pending", value |-> FALSE]
NotExtracted == [t |-> "pending", s |-> <<>>, a |-> <<>>]

Call(fn, scopes, requiredScopes, req, options, context, children, render) ==
  [fn |-> fn, scopes |-> scopes, requiredScopes |-> requiredScopes,
   req |-> req, options |-> options, context |-> context,
   children |-> children, render |-> render]

NoRequest == Req("user", NoUser)

Start ==
  /\ pc = "start"
  /\ result = NoResult
  /\ nextCalls = <<>>
  /\ rendered = Nothing
  /\ escaped = "none"
  /\ userPermissions = NotExtracted

\* a next that returns, and a middleware mounted without unless
PlainRoute ==
  /\ next = NextReturns
  /\ route = NoUnless

\* no list handed out, no second call, no concurrent caller, no provider
\* rendered, nothing memoized, no props
NoMemo == [deps |-> <<>>, value |-> FALSE]
NoProviderProps == [scopes |-> Undefined, id |-> 0]
Rest ==
  /\ alias = FALSE
  /\ more = Undefined
  /\ again = NoResult
  /\ callers = <<>>
  /\ provider = NoProviderProps
  /\ memo = NoMemo
  /\ props = NoProps

\* a guard built from no group: createGuard()
NoGroups ==
  /\ permissionLists = Arr(<<>>)
  /\ allPermissions = createGuard(Arr(<<>>))
  /\ returned = Undefined

InitCore ==
  /\ \E fn \in {"can", "cannot"}, s \in ScopesInputs, r \in RequiredInputs :
       call = Call(fn, s, r, NoRequest, DefaultOptions, NoProvider,
                   "undefined", "undefined")
  /\ Start
  /\ PlainRoute
  /\ NoGroups
  /\ Rest

InitExpress ==
  \E fn \in {"express.check", "express.can", "express.cannot"},
     r \in RequiredInputs, q \in Requests :
    call = Call(fn, Undefined, r, q.req, q.options, NoProvider,
                "undefined", "undefined")

InitGuard ==
  \E r \in RequiredInputs, c \in Contexts,
     ch \in Contents \ {"null"}, re \in Contents :
    call = Call("Guard", Undefined, r, NoRequest, DefaultOptions, c, ch, re)

InitWithPermission ==
  \E r \in RequiredInputs, c \in Contexts :
    call = Call("withPermission", Undefined, r, NoRequest, DefaultOptions, c,
                "undefined", "undefined")

InitAdapters ==
  /\ InitExpress \/ InitGuard \/ InitWithPermission
  /\ Start
  /\ PlainRoute
  /\ NoGroups
  /\ Rest

\* a middleware run with a next function of any behaviour
InitNext ==
  /\ \E fn \in {"express.check", "express.can", "express.cannot"},
        r \in RequiredInputs, q \in FewRequests :
       call = Call(fn, Undefined, r, q.req, q.options, NoProvider,
                   "undefined", "undefined")
  /\ Start
  /\ next \in [1..2 -> BOOLEAN]
  /\ route = NoUnless
  /\ NoGroups
  /\ Rest

\* a middleware mounted on any route of the model
InitUnless ==
  /\ \E fn \in {"express.check", "express.can", "express.cannot"},
        r \in RequiredInputs, q \in FewRequests :
       call = Call(fn, Undefined, r, q.req, q.options, NoProvider,
                   "undefined", "undefined")
  /\ Start
  /\ next = NextReturns
  /\ route \in Routes
  /\ NoGroups
  /\ Rest

CallCan ==
  /\ pc = "start" /\ call.fn = "can"
  /\ result' = can(call.scopes, call.requiredScopes)
  /\ pc' = "done"
  /\ UNCHANGED <<call, nextCalls, rendered, next, escaped, userPermissions,
                 route, permissionLists, allPermissions, returned, rest>>

CallCannot ==
  /\ pc = "start" /\ call.fn = "cannot"
  /\ result' = cannot(call.scopes, call.requiredScopes)
  /\ pc' = "done"
  /\ UNCHANGED <<call, nextCalls, rendered, next, escaped, userPermissions,
                 route, permissionLists, allPermissions, returned, rest>>

\* one request through the middleware `middleware` whose handler runs as
\* `run`: mounting it with .unless() needs the unless method; a request on
\* an excluded path goes to next() without running the handler
Middleware(middleware, run) ==
  /\ pc = "start"
  /\ IF route.wrapped /\ ~middleware.unless
     THEN /\ escaped' = "TypeError"
          /\ UNCHANGED <<nextCalls, userPermissions, result, rest>>
     ELSE IF route.wrapped /\ unless(route.path, route.originalUrl)
     THEN /\ nextCalls' = <<NoArgument>>
          /\ escaped' = IF next[1] THEN "NextError" ELSE "none"
          /\ UNCHANGED <<userPermissions, result, rest>>
     ELSE /\ userPermissions' = run.userPermissions
          /\ result' = run.hasPermission
          /\ nextCalls' = run.calls
          /\ escaped' = run.escaped
  /\ pc' = "done"
  /\ UNCHANGED <<call, rendered, next, route, permissionLists, allPermissions,
                 returned, rest>>

MiddlewareCheck ==
  /\ call.fn = "express.check"
  /\ Middleware(withUnless(Handler("express.check")),
                express_check(call.req, call.requiredScopes, call.options,
                              next))

MiddlewareCan ==
  /\ call.fn = "express.can"
  /\ Middleware(withUnless(Handler("express.can")),
                express_can(call.req, call.requiredScopes, call.options,
                            next))

MiddlewareCannot ==
  /\ call.fn = "express.cannot"
  /\ Middleware(withUnless(Handler("express.cannot")),
                express_cannot(call.req, call.requiredScopes, call.options,
                               next))

RenderGuard ==
  /\ pc = "start" /\ call.fn = "Guard"
  /\ rendered' = Guard(call.context, call.requiredScopes, call.children,
                       call.render)
  /\ pc' = "done"
  /\ UNCHANGED <<call, result, nextCalls, next, escaped, userPermissions,
                 route, permissionLists, allPermissions, returned, rest>>

RenderWithPermission ==
  /\ pc = "start" /\ call.fn = "withPermission"
  /\ rendered' = withPermission(call.context, call.requiredScopes, props)
  /\ pc' = "done"
  /\ UNCHANGED <<call, result, nextCalls, next, escaped, userPermissions,
                 route, permissionLists, allPermissions, returned, rest>>

\* the permission groups a guard is built from: up to MaxGroups of these
\* lists, which repeat permissions within a list and across lists
PermissionLists ==
  { Arr(<<>>), Arr(<<Str(<<"a">>)>>),
    Arr(<<Str(<<"a">>), Str(<<"a">>)>>),
    Arr(<<Str(<<"a">>), Str(<<"a", "b">>)>>),
    Arr(<<Str(<<"a", "b">>), Str(<<"a">>)>>),
    Arr(<<Str(<<"a", "b">>), Str(<<"b">>)>>) }
Registries == { Arr(l) : l \in SeqsUpTo(PermissionLists, MaxGroups) }

\* the held scopes and required expressions of the calls made on a guard:
\* "c" is in no registry
GuardScopes == Absent \cup { Arr(<<>>), Arr(<<Str(<<"a">>)>>),
                           Arr(<<Str(<<"a">>), Str(<<"a", "b">>)>>),
                           Arr(<<Str(<<"c">>)>>) }
GuardRequired == { Str(<<"a">>), Str(<<"a", "b">>), Str(<<"c">>),
                   Arr(<<>>), Arr(<<Str(<<"a">>), Str(<<"c">>)>>),
                   Arr(<<Arr(<<Str(<<"a">>)>>), Arr(<<Str(<<"c">>)>>)>>),
                   Undefined }

NoCall == Call("none", Undefined, Undefined, NoRequest, DefaultOptions,
               NoProvider, "undefined", "undefined")

\* before createGuard(...permissionLists) is called
InitRegistry ==
  /\ permissionLists \in Registries
  /\ allPermissions = Undefined
  /\ returned = Undefined
  /\ call = NoCall
  /\ Start
  /\ PlainRoute
  /\ Rest

CreateGuard ==
  /\ pc = "start" /\ call = NoCall
  /\ allPermissions' = createGuard(permissionLists)
  /\ pc' = "ready"
  /\ UNCHANGED <<call, result, nextCalls, rendered, next, escaped,
                 userPermissions, route, permissionLists, returned, rest>>

\* the caller calls a method of the guard
Invoke ==
  /\ pc = "ready"
  /\ \/ \E fn \in {"guard.can", "guard.cannot"},
           s \in GuardScopes, r \in GuardRequired :
          call' = Call(fn, s, r, NoRequest, DefaultOptions, NoProvider,
                       "undefined", "undefined")
     \/ call' = Call("guard.permissions", Undefined, Undefined, NoRequest,
                     DefaultOptions, NoProvider, "undefined", "undefined")
  /\ result' = NoResult
  /\ pc' = "called"
  /\ UNCHANGED <<nextCalls, rendered, next, escaped, userPermissions, route,
                 permissionLists, allPermissions, returned, rest>>

\* a can that adds the permission it was asked about to the registry
GuardCan_registers ==
  /\ pc = "called" /\ call.fn = "guard.can"
  /\ result' = guard_can(allPermissions, call.scopes, call.requiredScopes)
  /\ allPermissions' =
       IF isString(call.requiredScopes)
          /\ ~\E k \in 1..Len(allPermissions.a) :
               allPermissions.a[k] = call.requiredScopes
       THEN Arr(Append(allPermissions.a, call.requiredScopes))
       ELSE allPermissions
  /\ pc' = "ready"
  /\ UNCHANGED <<call, nextCalls, rendered, next, escaped, userPermissions,
                 route, permissionLists, returned, rest>>

\* a can that sorts the held scopes it was given, in place
GuardCan_sortsScopes ==
  /\ pc = "called" /\ call.fn = "guard.can"
  /\ result' = guard_can(allPermissions, call.scopes, call.requiredScopes)
  /\ call' = IF isArray(call.scopes) /\ Len(call.scopes.a) = 2
             THEN [call EXCEPT !.scopes =
                     Arr(<<call.scopes.a[2], call.scopes.a[1]>>)]
             ELSE call
  /\ pc' = "ready"
  /\ UNCHANGED <<nextCalls, rendered, next, escaped, userPermissions,
                 route, permissionLists, allPermissions, returned, rest>>

GuardCan ==
  /\ pc = "called" /\ call.fn = "guard.can"
  /\ result' = guard_can(allPermissions, call.scopes, call.requiredScopes)
  /\ pc' = "ready"
  /\ UNCHANGED <<call, nextCalls, rendered, next, escaped, userPermissions,
                 route, permissionLists, allPermissions, returned, rest>>

GuardCannot ==
  /\ pc = "called" /\ call.fn = "guard.cannot"
  /\ result' = guard_cannot(allPermissions, call.scopes, call.requiredScopes)
  /\ pc' = "ready"
  /\ UNCHANGED <<call, nextCalls, rendered, next, escaped, userPermissions,
                 route, permissionLists, allPermissions, returned, rest>>

GuardPermissions ==
  /\ pc = "called" /\ call.fn = "guard.permissions"
  /\ returned' = guard_permissions(allPermissions).list
  /\ alias' = guard_permissions(allPermissions).same
  /\ pc' = "ready"
  /\ UNCHANGED <<call, result, nextCalls, rendered, next, escaped,
                 userPermissions, route, permissionLists, allPermissions,
                 more, again, callers, provider, memo, props>>

\* the required expressions of the calls that are made twice, on two
\* held-scope arrays: strings, flat lists and some lists of lists
AgainRequired ==
  PermissionValues \cup FlatLists \cup Absent
    \cup { Arr(<<Arr(<<>>)>>),
           Arr(<<Arr(<<Str(<<"a">>)>>), Arr(<<Str(<<"a", "b">>)>>)>>),
           Arr(<<Arr(<<Str(<<"a">>), Str(<<"a", "b">>)>>)>>),
           Arr(<<Arr(<<Str(<<"a">>), Str(<<"a", "b">>)>>), Arr(<<Str(<<>>)>>)>>) }

\* can or cannot is called on the held scopes s, then on the held scopes
\* more, with the same required expression
InitAgain ==
  /\ \E fn \in {"can", "cannot"}, s \in HeldScopes, r \in AgainRequired :
       call = Call(fn, s, r, NoRequest, DefaultOptions, NoProvider,
                   "undefined", "undefined")
  /\ more \in HeldScopes
  /\ Start
  /\ PlainRoute
  /\ NoGroups
  /\ alias = FALSE
  /\ again = NoResult
  /\ callers = <<>>
  /\ provider = NoProviderProps
  /\ memo = NoMemo
  /\ props = NoProps

CallCanAgain ==
  /\ pc = "done" /\ call.fn = "can"
  /\ again' = can(more, call.requiredScopes)
  /\ pc' = "again"
  /\ UNCHANGED <<call, result, nextCalls, rendered, next, escaped,
                 userPermissions, route, permissionLists, allPermissions,
                 returned, alias, more, callers, provider, memo, props>>

CallCannotAgain ==
  /\ pc = "done" /\ call.fn = "cannot"
  /\ again' = cannot(more, call.requiredScopes)
  /\ pc' = "again"
  /\ UNCHANGED <<call, result, nextCalls, rendered, next, escaped,
                 userPermissions, route, permissionLists, allPermissions,
                 returned, alias, more, callers, provider, memo, props>>

\* ------------------------------------------- callers that share one guard
\* a caller: where it is in its call ("idle", "called", "normalised",
\* "returned"), its arguments, its local `required`, and what it was given
\* back
Caller(at, fn, scopes, requiredScopes, local, given) ==
  [at |-> at, fn |-> fn, scopes |-> scopes, requiredScopes |-> requiredScopes,
   required |-> local, given |-> given]
Idle == Caller("idle", "none", Undefined, Undefined, Undefined, NoResult)

SharedScopes == { Undefined, Arr(<<Str(<<"a">>)>>),
                  Arr(<<Str(<<"a", "b">>), Str(<<"a">>)>>) }
SharedRequired == { Str(<<"a", "b">>), Arr(<<Str(<<"a">>), Str(<<"a", "b">>)>>),
                    Arr(<<Arr(<<Str(<<"a", "b">>)>>), Arr(<<Str(<<"a">>)>>)>>) }
SharedGroups == { Arr(<<>>),
                  Arr(<<Arr(<<Str(<<"a">>), Str(<<"a", "b">>)>>)>>) }

\* one guard has been built, and MaxCallers callers are about to use it
InitConcurrent ==
  /\ permissionLists \in SharedGroups
  /\ allPermissions = createGuard(permissionLists)
  /\ returned = Undefined
  /\ callers = [c \in 1..MaxCallers |-> Idle]
  /\ call = NoCall
  /\ pc = "ready"
  /\ result = NoResult
  /\ nextCalls = <<>>
  /\ rendered = Nothing
  /\ escaped = "none"
  /\ userPermissions = NotExtracted
  /\ PlainRoute
  /\ alias = FALSE
  /\ more = Undefined
  /\ again = NoResult
  /\ provider = NoProviderProps
  /\ memo = NoMemo
  /\ props = NoProps

Shared == <<call, pc, result, nextCalls, rendered, next, escaped,
            userPermissions, route, permissionLists, allPermissions,
            returned, alias, more, again, provider, memo, props>>

\* caller c calls a method of the guard
Begin(c) ==
  /\ callers[c].at = "idle"
  /\ \/ \E fn \in {"guard.can", "guard.cannot"},
           s \in SharedScopes, r \in SharedRequired :
          callers' = [callers EXCEPT
                        ![c] = Caller("called", fn, s, r, Undefined, NoResult)]
     \/ callers' = [callers EXCEPT
                      ![c] = Caller("called", "guard.permissions", Undefined,
                                    Undefined, Undefined, NoResult)]
  /\ UNCHANGED Shared

\* if (!requiredScopes || !scopes) return false; const required = ...
Normalise(c) ==
  /\ callers[c].at = "called"
  /\ callers[c].fn \in {"guard.can", "guard.cannot"}
  /\ callers' =
       IF ~Truthy(callers[c].requiredScopes) \/ ~Truthy(callers[c].scopes)
       THEN [callers EXCEPT
               ![c].at = "returned",
               ![c].given = Return(callers[c].fn = "guard.cannot")]
       ELSE [callers EXCEPT
               ![c].at = "normalised",
               ![c].required = required(callers[c].requiredScopes)]
  /\ UNCHANGED Shared

\* an evaluation that reads the held scopes of the next caller when that
\* caller is in a call of its own
Evaluate_readsOther(c) ==
  LET o == (c % MaxCallers) + 1
      scopes == IF callers[o].at = "normalised" THEN callers[o].scopes
                ELSE callers[c].scopes
      sufficient_ == some(callers[c].required.a, scopes, 1)
  IN /\ callers[c].at = "normalised"
     /\ callers' = [callers EXCEPT
                      ![c].at = "returned",
                      ![c].given =
                        IF callers[c].fn = "guard.can" THEN sufficient_
                        ELSE Return(~sufficient_.value)]
     /\ UNCHANGED Shared

\* const sufficient = required.some(...); return sufficient, negated by
\* cannot
Evaluate(c) ==
  LET sufficient_ == some(callers[c].required.a, callers[c].scopes, 1)
  IN /\ callers[c].at = "normalised"
     /\ callers' = [callers EXCEPT
                      ![c].at = "returned",
                      ![c].given =
                        IF callers[c].fn = "guard.can" THEN sufficient_
                        ELSE Return(~sufficient_.value)]
     /\ UNCHANGED Shared

\* permissions: () => allPermissions
ListPermissions(c) ==
  /\ callers[c].at = "called"
  /\ callers[c].fn = "guard.permissions"
  /\ callers' = [callers EXCEPT
                   ![c].at = "returned",
                   ![c].required = guard_permissions(allPermissions).list]
  /\ UNCHANGED Shared

\* the caller has its answer and is free to call again
Finish(c) ==
  /\ callers[c].at = "returned"
  /\ callers' = [callers EXCEPT ![c] = Idle]
  /\ UNCHANGED Shared

\* the props of the wrapped components of the model
Props == { <<>>, <<"userId">>, <<"userId", "name">> }

InitUseGuard ==
  \E r \in RequiredInputs, c \in Contexts :
    call = Call("useGuard", Undefined, r, NoRequest, DefaultOptions, c,
                "undefined", "undefined")

InitUsePermissionContext ==
  \E c \in Contexts :
    call = Call("usePermissionContext", Undefined, Undefined, NoRequest,
                DefaultOptions, c, "undefined", "undefined")

\* one hook call or one render of a component, under any provider or none
InitReact ==
  /\ \/ InitGuard /\ props = NoProps
     \/ InitWithPermission /\ props \in Props
     \/ InitUseGuard /\ props = NoProps
     \/ InitUsePermissionContext /\ props = NoProps
  /\ Start
  /\ PlainRoute
  /\ NoGroups
  /\ alias = FALSE
  /\ more = Undefined
  /\ again = NoResult
  /\ callers = <<>>
  /\ provider = NoProviderProps
  /\ memo = NoMemo

CallUseGuard ==
  /\ pc = "start" /\ call.fn = "useGuard"
  /\ result' = useGuard(call.context, call.requiredScopes)
  /\ pc' = "done"
  /\ UNCHANGED <<call, nextCalls, rendered, next, escaped, userPermissions,
                 route, permissionLists, allPermissions, returned, rest>>

CallUsePermissionContext ==
  /\ pc = "start" /\ call.fn = "usePermissionContext"
  /\ result' = usePermissionContext(call.context)
  /\ pc' = "done"
  /\ UNCHANGED <<call, nextCalls, rendered, next, escaped, userPermissions,
                 route, permissionLists, allPermissions, returned, rest>>

\* the lists of permissions given to definePermissions
DefinedLists ==
  { Arr(q) : q \in SeqsUpTo(PermissionValues \cup { Str(<<"b">>) },
                            MaxGroupLen) }

\* definePermissions or defineRole is called with the permissions
\* call.requiredScopes, as one array argument or as one argument each:
\* call.scopes is the array of the arguments
InitDefine ==
  /\ \E fn \in {"definePermissions", "defineRole"}, p \in DefinedLists :
       \E args \in { Arr(<<p>>), p } :
         call = Call(fn, args, p, NoRequest, DefaultOptions, NoProvider,
                     "undefined", "undefined")
  /\ Start
  /\ PlainRoute
  /\ NoGroups
  /\ Rest

CallDefinePermissions ==
  /\ pc = "start" /\ call.fn = "definePermissions"
  /\ returned' = definePermissions(call.scopes)
  /\ pc' = "done"
  /\ UNCHANGED <<call, result, nextCalls, rendered, next, escaped,
                 userPermissions, route, permissionLists, allPermissions,
                 rest>>

CallDefineRole ==
  /\ pc = "start" /\ call.fn = "defineRole"
  /\ returned' = defineRole(call.scopes)
  /\ pc' = "done"
  /\ UNCHANGED <<call, result, nextCalls, rendered, next, escaped,
                 userPermissions, route, permissionLists, allPermissions,
                 rest>>

\* the scopes arrays a PermissionProvider is given, and the required
\* expressions of the consumer that is rendered again and again
RenderedScopes == { Arr(<<>>), Arr(<<Str(<<"a">>)>>), Arr(<<Str(<<"a", "b">>)>>),
                    Arr(<<Str(<<"a">>), Str(<<"a", "b">>)>>) }
RenderedRequired == { Str(<<"a">>), Str(<<"a", "b">>),
                      Arr(<<Str(<<"a">>), Str(<<"a", "b">>)>>),
                      Arr(<<Arr(<<Str(<<"a">>)>>), Arr(<<Str(<<"a", "b">>)>>)>>) }

\* a provider with its scopes array (the contents and the identity of the
\* array object) and a consumer calling useGuard(r), not rendered yet
InitRender ==
  /\ \E r \in RenderedRequired :
       call = Call("useGuard", Undefined, r, NoRequest, DefaultOptions,
                   NoProvider, "undefined", "undefined")
  /\ \E s \in RenderedScopes : provider = [scopes |-> s, id |-> 1]
  /\ memo = NoMemo
  /\ Start
  /\ PlainRoute
  /\ NoGroups
  /\ alias = FALSE
  /\ more = Undefined
  /\ again = NoResult
  /\ callers = <<>>
  /\ props = NoProps

\* one render of the consumer: useGuard under the provider as it is now
RenderUseGuard ==
  /\ pc \in {"start", "changed"}
  /\ memo' = useMemo(memo, can(provider.scopes, call.requiredScopes).value,
                     Dependencies(provider, call.requiredScopes))
  /\ result' = Return(memo'.value)
  /\ pc' = "rendered"
  /\ UNCHANGED <<call, nextCalls, rendered, next, escaped, userPermissions,
                 route, permissionLists, allPermissions, returned, alias,
                 more, again, callers, provider, props>>

\* the application gives the provider another scopes array
SupplyScopes ==
  /\ pc = "rendered"
  /\ \E s \in RenderedScopes :
       provider' = [scopes |-> s, id |-> (provider.id % 2) + 1]
  /\ pc' = "changed"
  /\ UNCHANGED <<call, result, nextCalls, rendered, next, escaped,
                 userPermissions, route, permissionLists, allPermissions,
                 returned, alias, more, again, callers, memo, props>>

\* the application changes the scopes array it gave to the provider in
\* place (push, splice, index assignment) and renders again
ModifyScopes ==
  /\ pc = "rendered"
  /\ \E s \in RenderedScopes \ {provider.scopes} :
       provider' = [provider EXCEPT !.scopes = s]
  /\ pc' = "changed"
  /\ UNCHANGED <<call, result, nextCalls, rendered, next, escaped,
                 userPermissions, route, permissionLists, allPermissions,
                 returned, alias, more, again, callers, memo, props>>

\* the caller calls permissions() on the guard
AskPermissions ==
  /\ pc = "ready"
  /\ call' = Call("guard.permissions", Undefined, Undefined, NoRequest,
                  DefaultOptions, NoProvider, "undefined", "undefined")
  /\ result' = NoResult
  /\ pc' = "called"
  /\ UNCHANGED <<nextCalls, rendered, next, escaped, userPermissions, route,
                 permissionLists, allPermissions, returned, rest>>

\* what a caller can make of a list: "x" appended, the last element
\* removed, the first element replaced by "x"
Modifications(list) ==
  (IF Len(list.a) < MaxListed
   THEN { Arr(Append(list.a, Str(<<"x">>))) } ELSE {})
  \cup (IF list.a # <<>>
        THEN { Arr(SubSeq(list.a, 1, Len(list.a) - 1)),
               Arr([list.a EXCEPT ![1] = Str(<<"x">>)]) }
        ELSE {})

\* the caller writes into the list permissions() handed out; when the list
\* is the array the guard keeps, the guard's array is the one written
ModifyList ==
  /\ pc = "ready"
  /\ returned # Undefined
  /\ \E modified \in Modifications(returned) :
       /\ returned' = modified
       /\ allPermissions' = IF alias THEN modified ELSE allPermissions
  /\ UNCHANGED <<call, pc, result, nextCalls, rendered, next, escaped,
                 userPermissions, route, permissionLists, rest>>

NextCore ==
  \/ CallCan
  \/ CallCannot

NextAdapters ==
  \/ MiddlewareCheck
  \/ MiddlewareCan
  \/ MiddlewareCannot
  \/ RenderGuard
  \/ RenderWithPermission

NextMiddleware ==
  \/ MiddlewareCheck
  \/ MiddlewareCan
  \/ MiddlewareCannot

NextRegistry ==
  \/ CreateGuard
  \/ Invoke
  \/ GuardCan
  \/ GuardCannot
  \/ GuardPermissions

NextAgain ==
  \/ CallCan
  \/ CallCannot
  \/ CallCanAgain
  \/ CallCannotAgain

NextConcurrent ==
  \/ \E c \in 1..MaxCallers : Begin(c)
  \/ \E c \in 1..MaxCallers : Normalise(c)
  \/ \E c \in 1..MaxCallers : Evaluate(c)
  \/ \E c \in 1..MaxCallers : ListPermissions(c)
  \/ \E c \in 1..MaxCallers : Finish(c)

NextReact ==
  \/ RenderGuard
  \/ RenderWithPermission
  \/ CallUseGuard
  \/ CallUsePermissionContext

NextDefine ==
  \/ CallDefinePermissions
  \/ CallDefineRole

NextRender ==
  \/ RenderUseGuard
  \/ SupplyScopes
  \/ ModifyScopes

NextHandedOut ==
  \/ CreateGuard
  \/ AskPermissions
  \/ GuardPermissions
  \/ ModifyList

\* the evaluator called directly
SpecCore == InitCore /\ [][NextCore]_vars

\* the evaluator called through the express middleware and the components
SpecAdapters == InitAdapters /\ [][NextAdapters]_vars

\* the express middleware with a next function that may throw
SpecNext == InitNext /\ [][NextMiddleware]_vars

\* the express middleware mounted with .unless()
SpecUnless == InitUnless /\ [][NextMiddleware]_vars

\* the evaluator called twice with the same required expression
SpecAgain == InitAgain /\ [][NextAgain]_vars

\* callers that use one guard at the same time, in any interleaving
SpecConcurrent == InitConcurrent /\ [][NextConcurrent]_vars

\* the hooks and components of the react adapter
SpecReact == InitReact /\ [][NextReact]_vars

\* definePermissions and defineRole
SpecDefine == InitDefine /\ [][NextDefine]_vars

\* a consumer of useGuard rendered again after the scopes have changed
SpecRender == InitRender /\ [][NextRender]_vars

\* a guard whose caller writes into the lists permissions() hands out
SpecHandedOut == InitRegistry /\ [][NextHandedOut]_vars

\* a guard built by createGuard and any sequence of calls of its methods
SpecRegistry == InitRegistry /\ [][NextRegistry]_vars

\* ------------------------------------------------------------- properties
Done(fn) == pc = "done" /\ call.fn = fn

\* p is an element of the held-scope array s
Holds(s, p) == \E k \in 1..Len(s.a) : s.a[k] = p
\* every permission of the group g is an element of s
AllHeld(s, g) == \A j \in 1..Len(g.a) : Holds(s, g.a[j])
IsPrefix(p, q) == Len(p) <= Len(q) /\ SubSeq(q, 1, Len(p)) = p

\* C1: for a held-scope array and a non-empty list of lists, can is true
\* exactly when some inner list has all its permissions among the held
\* scopes (OR across the inner lists, AND within each)
C1_OrOfAnds ==
  (/\ Done("can")
   /\ call.scopes \in HeldScopes
   /\ call.requiredScopes \in NestedLists
   /\ call.requiredScopes.a # <<>>)
  => result = Return(\E i \in 1..Len(call.requiredScopes.a) :
                        AllHeld(call.scopes, call.requiredScopes.a[i]))

\* a two-group expression admitted by its second group only
C1_Witness ==
  /\ Done("can")
  /\ call.scopes \in HeldScopes
  /\ call.requiredScopes \in NestedLists
  /\ Len(call.requiredScopes.a) = 2
  /\ ~AllHeld(call.scopes, call.requiredScopes.a[1])
  /\ call.requiredScopes.a[2].a # <<>>
  /\ result = Return(TRUE)

\* C2: for a held-scope array and a non-empty flat list of permission
\* strings, can is true exactly when every element of the list is held
C2_FlatListIsAnd ==
  (/\ Done("can")
   /\ call.scopes \in HeldScopes
   /\ call.requiredScopes \in FlatLists
   /\ call.requiredScopes.a # <<>>)
  => result = Return(AllHeld(call.scopes, call.requiredScopes))

\* a flat list of two different permissions of which only the first is held
C2_Witness ==
  /\ Done("can")
  /\ call.scopes \in HeldScopes
  /\ call.requiredScopes \in FlatLists
  /\ Len(call.requiredScopes.a) = 2
  /\ Holds(call.scopes, call.requiredScopes.a[1])
  /\ ~Holds(call.scopes, call.requiredScopes.a[2])
  /\ result = Return(FALSE)

\* C3 as stated: for every permission string p and every held-scope array
\* that contains p, can(s, p) is true
C3_HeldStringAdmits ==
  (/\ Done("can")
   /\ call.scopes \in HeldScopes
   /\ isString(call.requiredScopes)
   /\ Holds(call.scopes, call.requiredScopes))
  => result = Return(TRUE)

\* C3 amended: for every non-empty permission string p and every held-scope
\* array that contains p, can(s, p) is true
C3_HeldNonEmptyStringAdmits ==
  (/\ Done("can")
   /\ call.scopes \in HeldScopes
   /\ isString(call.requiredScopes)
   /\ call.requiredScopes.s # <<>>
   /\ Holds(call.scopes, call.requiredScopes))
  => result = Return(TRUE)

\* a non-empty permission held as the first of two different scopes
C3_Witness ==
  /\ Done("can")
  /\ call.scopes \in HeldScopes
  /\ Len(call.scopes.a) = 2
  /\ isString(call.requiredScopes)
  /\ call.requiredScopes.s # <<>>
  /\ call.scopes.a[1] = call.requiredScopes
  /\ call.scopes.a[2] # call.requiredScopes
  /\ result = Return(TRUE)

\* C4: for permission strings p # q, can([p], q) is false, also when one
\* is a prefix or substring of the other
C4_ExactMatchOnly ==
  (/\ Done("can")
   /\ call.scopes \in HeldScopes
   /\ Len(call.scopes.a) = 1
   /\ isString(call.requiredScopes)
   /\ call.scopes.a[1] # call.requiredScopes)
  => result = Return(FALSE)

\* the required permission is a proper, non-empty prefix of the held scope
C4_Witness ==
  /\ Done("can")
  /\ call.scopes \in HeldScopes
  /\ Len(call.scopes.a) = 1
  /\ isString(call.requiredScopes)
  /\ call.requiredScopes.s # <<>>
  /\ call.scopes.a[1] # call.requiredScopes
  /\ IsPrefix(call.requiredScopes.s, call.scopes.a[1].s)
  /\ result = Return(FALSE)

\* C5 as stated: for every held-scope array s, can(s, []) is false
C5_EmptyListDenies ==
  (/\ Done("can")
   /\ call.scopes \in HeldScopes
   /\ call.requiredScopes = Arr(<<>>))
  => result = Return(FALSE)

\* C5 amended: for every held-scope array s, can(s, []) is true: the empty
\* list passes every(.., isString), is wrapped as the single group [[]],
\* and that empty AND-group is vacuously satisfied
C5_EmptyListAdmits ==
  (/\ Done("can")
   /\ call.scopes \in HeldScopes
   /\ call.requiredScopes = Arr(<<>>))
  => result = Return(TRUE)

\* the empty list required of a caller that holds one non-empty scope
C5_Witness ==
  /\ Done("can")
  /\ call.scopes \in HeldScopes
  /\ Len(call.scopes.a) = 1
  /\ call.scopes.a[1].s # <<>>
  /\ call.requiredScopes = Arr(<<>>)
  /\ result = Return(TRUE)

\* C6: can is false whenever the scopes are null or undefined, and whenever
\* the required expression is null, undefined or "", whatever the other
\* argument is
C6_FailClosed ==
  (/\ Done("can")
   /\ \/ call.scopes \in Absent
      \/ call.requiredScopes \in Absent
      \/ call.requiredScopes = Str(<<>>))
  => result = Return(FALSE)

\* the empty string required of a caller that holds the empty string
C6_Witness ==
  /\ Done("can")
  /\ call.requiredScopes = Str(<<>>)
  /\ call.scopes \in HeldScopes
  /\ Holds(call.scopes, Str(<<>>))
  /\ result = Return(FALSE)

\* C7: for all held scopes and required expressions of the declared types,
\* null and undefined included, cannot returns the negation of what can
\* returns
C7_CannotNegatesCan ==
  (/\ Done("cannot")
   /\ call.scopes \in HeldScopes \cup Absent
   /\ call.requiredScopes \in RequiredExpressions \cup Absent)
  => /\ can(call.scopes, call.requiredScopes).threw = "none"
     /\ result = Return(~can(call.scopes, call.requiredScopes).value)

\* cannot on missing scopes and a permission string
C7_Witness ==
  /\ Done("cannot")
  /\ call.scopes \in Absent
  /\ isString(call.requiredScopes)
  /\ call.requiredScopes.s # <<>>
  /\ result = Return(TRUE)

\* the caller's scope data is invalid, missing or unresolvable: for a
\* middleware, no user object on the request, no permissions field on the
\* user, a field that is neither a string nor an array, or the empty scope
\* string; for a component, provider scopes that are null or undefined
InvalidScopeData ==
  IF call.fn \in {"express.check", "express.can", "express.cannot"}
  THEN LET user  == GetUser(call.req, requestProperty(call.options))
           field == GetField(user, permissionsProperty(call.options))
       IN \/ user.t \in {"undefined", "null"}
          \/ field = Undefined
          \/ field.t \notin {"string", "array"}
          \/ field = Str(<<>>)
  ELSE /\ call.fn \in {"Guard", "withPermission"}
       /\ call.context.provided
       /\ call.context.scopes \in Absent

\* the caller was let through: next was called with no argument, or the
\* protected content was rendered, or the render function was told true
Admitted ==
  \/ \E i \in 1..Len(nextCalls) : nextCalls[i] = NoArgument
  \/ rendered.kind = "node"
  \/ rendered.kind = "function" /\ rendered.arg

\* the required expression has no empty AND-group once normalised: it is
\* not [] and contains no []
NoEmptyGroup(r) ==
  isArray(r) => /\ r.a # <<>>
                /\ \A i \in 1..Len(r.a) : isArray(r.a[i]) => r.a[i].a # <<>>

\* C8 as stated: at every enforcement point (check, can and cannot
\* middleware, Guard, withPermission) a caller whose scope data is invalid,
\* missing or unresolvable is never admitted
C8_InvalidDataNeverAdmitted ==
  (pc = "done" /\ InvalidScopeData) => ~Admitted

\* C8 amended: for a required expression that has no empty AND-group, a
\* caller whose scope data is invalid, missing or unresolvable is denied by
\* the check and can middleware (one call of next, with a
\* PermissionDeniedError) and by Guard and withPermission (nothing is
\* rendered, a render function is told false), and is admitted by the
\* cannot middleware, which is the inverse check
C8_InvalidDataDenied ==
  (/\ pc = "done"
   /\ InvalidScopeData
   /\ call.requiredScopes \in RequiredExpressions \cup Absent
   /\ NoEmptyGroup(call.requiredScopes))
  => /\ call.fn \in {"express.check", "express.can"}
          => nextCalls = <<PermissionDeniedError(DefaultMessage)>>
     /\ call.fn = "express.cannot" => nextCalls = <<NoArgument>>
     /\ call.fn \in {"Guard", "withPermission"}
          => rendered.threw = "none" /\ ~Admitted

\* the check middleware on a user whose permissions field is a number
C8_Witness ==
  /\ Done("express.check")
  /\ call.options = DefaultOptions
  /\ GetUser(call.req, "user").t = "object"
  /\ GetField(GetUser(call.req, "user"), "permissions") = Num(<<"5">>)
  /\ isString(call.requiredScopes)
  /\ call.requiredScopes.s # <<>>
  /\ nextCalls = <<PermissionDeniedError(DefaultMessage)>>

\* C9: can and cannot raise no exception for held scopes and required
\* expressions of the declared types, null and undefined included, and can
\* is false when either is null or undefined
C9_NeverThrows ==
  (/\ pc = "done"
   /\ call.fn \in {"can", "cannot"}
   /\ call.scopes \in HeldScopes \cup Absent
   /\ call.requiredScopes \in RequiredExpressions \cup Absent)
  => /\ result.threw = "none"
     /\ (call.fn = "can"
         /\ (call.scopes \in Absent \/ call.requiredScopes \in Absent))
        => ~result.value

\* cannot on undefined scopes and a two-group expression of non-empty groups
C9_Witness ==
  /\ Done("cannot")
  /\ call.scopes = Undefined
  /\ call.requiredScopes \in NestedLists
  /\ Len(call.requiredScopes.a) = 2
  /\ \A i \in 1..2 : call.requiredScopes.a[i].a # <<>>
  /\ result.threw = "none"

\* C10: for every held-scope array, the empty one included, a list of lists
\* that contains an empty inner list makes can true
C10_EmptyGroupAdmits ==
  (/\ Done("can")
   /\ call.scopes \in HeldScopes
   /\ call.requiredScopes \in NestedLists
   /\ \E i \in 1..Len(call.requiredScopes.a) :
        call.requiredScopes.a[i] = Arr(<<>>))
  => result = Return(TRUE)

\* no scope held, and an empty group after a group that is not satisfied
C10_Witness ==
  /\ Done("can")
  /\ call.scopes = Arr(<<>>)
  /\ call.requiredScopes \in NestedLists
  /\ Len(call.requiredScopes.a) = 2
  /\ call.requiredScopes.a[1].a # <<>>
  /\ call.requiredScopes.a[2] = Arr(<<>>)
  /\ result = Return(TRUE)

\* the call is one request through a middleware
Middlewares == {"express.check", "express.can", "express.cannot"}
DoneMiddleware == pc = "done" /\ call.fn \in Middlewares
\* the required expression is of the declared type, or null or undefined
TypedRequired == call.requiredScopes \in RequiredExpressions \cup Absent
\* what guard.can answers for the scopes extracted from the request
Allowed ==
  can(getPermissions(call.req, call.options), call.requiredScopes)
    = Return(TRUE)

\* C11: the check and the can middleware behave identically: for every
\* request, next is called once with no argument when guard.can(extracted
\* scopes, r) is true, and once with a PermissionDeniedError otherwise
C11_CheckAndCanAlike ==
  (/\ pc = "done"
   /\ call.fn \in {"express.check", "express.can"}
   /\ TypedRequired)
  => /\ Allowed => nextCalls = <<NoArgument>>
     /\ ~Allowed => nextCalls = <<PermissionDeniedError(DefaultMessage)>>
     /\ express_check(call.req, call.requiredScopes, call.options, next)
          = express_can(call.req, call.requiredScopes, call.options, next)

\* the can middleware denies a request whose scope string holds only one
\* of the two permissions of the required group
C11_Witness ==
  /\ Done("express.can")
  /\ call.options = DefaultOptions
  /\ GetField(GetUser(call.req, "user"), "permissions").t = "string"
  /\ userPermissions = Arr(<<Str(<<"a">>)>>)
  /\ call.requiredScopes = Arr(<<Str(<<"a">>), Str(<<"a", "b">>)>>)
  /\ nextCalls = <<PermissionDeniedError(DefaultMessage)>>

\* C12: the cannot middleware is the inverse of check: for every request
\* it calls next with no argument when guard.can(extracted scopes, r) is
\* false and with a PermissionDeniedError otherwise, so exactly one of
\* check(r) and cannot(r) admits the request
C12_CannotInvertsCheck ==
  (Done("express.cannot") /\ TypedRequired)
  => /\ ~Allowed => nextCalls = <<NoArgument>>
     /\ Allowed => nextCalls = <<PermissionDeniedError(CannotMessage)>>
     /\ (nextCalls = <<NoArgument>>)
          # (express_check(call.req, call.requiredScopes, call.options,
                           next).calls = <<NoArgument>>)

\* the cannot middleware rejects a caller that holds the permission
C12_Witness ==
  /\ Done("express.cannot")
  /\ userPermissions \in CarriedScopes
  /\ isString(call.requiredScopes)
  /\ call.requiredScopes.s # <<>>
  /\ Holds(userPermissions, call.requiredScopes)
  /\ nextCalls = <<PermissionDeniedError(CannotMessage)>>

\* C13: every denial of the check, can or cannot middleware (the guard
\* answered and the request was not admitted) carries code
\* "permission_denied" and status 403; the message of the cannot middleware
\* differs from that of check and can
C13_DenialShape ==
  (/\ DoneMiddleware
   /\ result.threw = "none"
   /\ nextCalls # <<NoArgument>>)
  => /\ Len(nextCalls) = 1
     /\ nextCalls[1].name = "PermissionDeniedError"
     /\ nextCalls[1].code = "permission_denied"
     /\ nextCalls[1].status = 403
     /\ nextCalls[1].message =
          (IF call.fn = "express.cannot" THEN CannotMessage
           ELSE DefaultMessage)
     /\ CannotMessage # DefaultMessage

\* a denial by the cannot middleware, with its own message
C13_Witness ==
  /\ Done("express.cannot")
  /\ result = Return(FALSE)
  /\ Len(nextCalls) = 1
  /\ nextCalls[1].status = 403
  /\ nextCalls[1].message = CannotMessage

\* C14 as stated: each invocation of a check, can or cannot middleware
\* calls next exactly once and lets no exception escape the handler,
\* whatever the request is and however next behaves
C14_NextOnceNoEscape ==
  DoneMiddleware => Len(nextCalls) = 1 /\ escaped = "none"

\* C15: when the middleware is mounted with unless and the path of the
\* request is one of the excluded paths, the scopes are not extracted, the
\* guard is not asked, and next is called once with no argument
C15_UnlessBypasses ==
  (/\ DoneMiddleware
   /\ route.wrapped
   /\ route.originalUrl \in route.path)
  => /\ nextCalls = <<NoArgument>>
     /\ userPermissions = NotExtracted
     /\ result = NoResult
     /\ escaped = "none"

\* a request without a user on an excluded path, through a check that would
\* have denied it
C15_Witness ==
  /\ Done("express.check")
  /\ route.wrapped
  /\ route.originalUrl = "/public"
  /\ "/public" \in route.path
  /\ GetUser(call.req, "user") = NoUser
  /\ call.requiredScopes = Str(<<"a">>)
  /\ nextCalls = <<NoArgument>>

\* the permissions field the middleware reads from the request
Field ==
  GetField(GetUser(call.req, requestProperty(call.options)),
           permissionsProperty(call.options))

\* tokens is chars cut at the separators seps: the maximal runs of
\* characters that are not separators, in the order they start
SplitOn(chars, seps, tokens) ==
  LET starts == { i \in 1..Len(chars) :
                    chars[i] \notin seps /\ (i = 1 \/ chars[i - 1] \in seps) }
  IN /\ Len(tokens) = Cardinality(starts)
     /\ \A n \in 1..Len(tokens) :
          \E i \in starts, j \in 1..Len(chars) :
            /\ Cardinality({ k \in starts : k <= i }) = n
            /\ i <= j
            /\ \A k \in i..j : chars[k] \notin seps
            /\ j = Len(chars) \/ chars[j + 1] \in seps
            /\ tokens[n] = Str(SubSeq(chars, i, j))

Whitespace == {" ", "\t", "\n"}

\* C16 as stated: a string permissions field is split on whitespace, any
\* run of whitespace separating two tokens, and empty tokens are discarded
C16_SplitOnWhitespace ==
  (DoneMiddleware /\ Field.t = "string")
  => /\ userPermissions.t = "array"
     /\ SplitOn(Field.s, Whitespace, userPermissions.a)

\* C16 amended: a string permissions field is split on the space character
\* only, any run of spaces separating two tokens, and empty tokens are
\* discarded; a tab or a newline is part of a token
C16_SplitOnSpaces ==
  (DoneMiddleware /\ Field.t = "string")
  => /\ userPermissions.t = "array"
     /\ SplitOn(Field.s, {" "}, userPermissions.a)

\* "a  ab " gives ["a", "ab"]
C16_Witness ==
  /\ DoneMiddleware
  /\ Field = Str(<<"a", " ", " ", "a", "b", " ">>)
  /\ userPermissions = Arr(<<Str(<<"a">>), Str(<<"a", "b">>)>>)

\* the configured names of the user record and of its permissions field,
\* "user" and "permissions" when not configured
RecordName ==
  IF call.options.requestProperty = "" THEN "user"
  ELSE call.options.requestProperty
FieldName ==
  IF call.options.permissionsProperty = "" THEN "permissions"
  ELSE call.options.permissionsProperty

\* C17: extraction always yields a sequence: the empty one when the request
\* has no user record under the configured name, the record has no field
\* under the configured name, or the field is neither a string nor a
\* sequence; the field itself when it is a sequence
C17_ExtractionNeverFails ==
  DoneMiddleware
  => LET user  == GetUser(call.req, RecordName)
         field == GetField(user, FieldName)
     IN /\ userPermissions.t = "array"
        /\ (\/ user.t \in {"undefined", "null"}
            \/ field \in Absent
            \/ field.t \notin {"string", "array"})
             => userPermissions = Arr(<<>>)
        /\ field.t = "array" => userPermissions = field

\* a sequence read from the field "scope" of the record "identity"
C17_Witness ==
  /\ DoneMiddleware
  /\ call.options = CustomOptions
  /\ call.req = Req("identity", UserObject("scope", Arr(<<Str(<<"a">>)>>)))
  /\ userPermissions = Arr(<<Str(<<"a">>)>>)

\* a method of the guard has returned
Answered(fn) == pc = "ready" /\ call.fn = fn

\* the places <<g, j>> of the permissions in the groups the guard was built
\* from, the permission at a place, and the first place of a permission
Places ==
  UNION { { <<g, j>> : j \in 1..Len(permissionLists.a[g].a) } :
            g \in 1..Len(permissionLists.a) }
At(o) == permissionLists.a[o[1]].a[o[2]]
Before(o1, o2) == o1[1] < o2[1] \/ (o1[1] = o2[1] /\ o1[2] < o2[2])
FirstPlace(p) ==
  CHOOSE o \in Places :
    At(o) = p /\ \A o2 \in Places : At(o2) = p => ~Before(o2, o)

\* C18: permissions() returns every permission that occurs in some group
\* exactly once and nothing else, ordered by first occurrence across the
\* groups in argument order; it is empty when there is no group or every
\* group is empty
C18_PermissionsFirstOccurrence ==
  Answered("guard.permissions")
  => /\ returned.t = "array"
     /\ \A o \in Places :
          Cardinality({ k \in 1..Len(returned.a) : returned.a[k] = At(o) }) = 1
     /\ \A k \in 1..Len(returned.a) : \E o \in Places : At(o) = returned.a[k]
     /\ \A k1, k2 \in 1..Len(returned.a) :
          k1 < k2 => Before(FirstPlace(returned.a[k1]),
                            FirstPlace(returned.a[k2]))
     /\ Places = {} => returned = Arr(<<>>)

\* createGuard(["ab", "a"], ["a", "ab"]).permissions() is ["ab", "a"]
C18_Witness ==
  /\ Answered("guard.permissions")
  /\ permissionLists = Arr(<<Arr(<<Str(<<"a", "b">>), Str(<<"a">>)>>),
                             Arr(<<Str(<<"a">>), Str(<<"a", "b">>)>>)>>)
  /\ returned = Arr(<<Str(<<"a", "b">>), Str(<<"a">>)>>)

\* C19: whatever groups the guard was built from, guard.can(s, r) is
\* can(s, r) and guard.cannot(s, r) is cannot(s, r); a required permission
\* string is decided by its membership in the held scopes, in the registry
\* or not
C19_RegistryNeverGates ==
  /\ Answered("guard.can")
       => /\ result = can(call.scopes, call.requiredScopes)
          /\ (/\ isArray(call.scopes)
              /\ isString(call.requiredScopes)
              /\ call.requiredScopes.s # <<>>)
               => result = Return(Holds(call.scopes, call.requiredScopes))
  /\ Answered("guard.cannot")
       => result = cannot(call.scopes, call.requiredScopes)

\* a held permission that the registry does not list is granted
C19_Witness ==
  /\ Answered("guard.can")
  /\ allPermissions.a # <<>>
  /\ ~Holds(allPermissions, call.requiredScopes)
  /\ isString(call.requiredScopes)
  /\ Holds(call.scopes, call.requiredScopes)
  /\ result = Return(TRUE)

\* C20: no call of can, cannot or permissions changes its arguments, the
\* permission groups or the registry: in every step the groups are what
\* they were, once built the registry is what it was, and a call returns
\* with the held scopes and the required expression it was given
C20_NoSideEffects ==
  [][/\ permissionLists' = permissionLists
     /\ pc # "start" => allPermissions' = allPermissions
     /\ pc = "called" => call' = call]_vars

\* cannot has answered on two held scopes, after permissions() was called
C20_Witness ==
  /\ Answered("guard.cannot")
  /\ returned = allPermissions
  /\ permissionLists.a # <<>>
  /\ isArray(call.scopes)
  /\ Len(call.scopes.a) = 2
  /\ result = Return(FALSE)

\* C21: once createGuard has returned the registry is not written: no call
\* of can, cannot or permissions changes it, and every call of
\* permissions() returns the list the call before it returned
C21_RegistryReadOnly ==
  [][/\ pc # "start" => allPermissions' = allPermissions
     /\ returned # Undefined => returned' = returned
     /\ (pc = "called" /\ call.fn = "guard.permissions")
          => returned' = createGuard(permissionLists)]_vars

\* permissions() is called again on a guard of three permissions, after it
\* has returned once
C21_Witness ==
  /\ pc = "called"
  /\ call.fn = "guard.permissions"
  /\ returned = allPermissions
  /\ Len(returned.a) = 3

\* both calls have returned
Twice(fn) == pc = "again" /\ call.fn = fn
\* every element of the held scopes s is an element of the held scopes t
Within(s, t) == \A k \in 1..Len(s.a) : Holds(t, s.a[k])

\* C22: can depends only on the set of strings held: two held-scope arrays
\* with the same elements, in any order and however often repeated, get
\* the same answer for every required expression
C22_OrderAndRepeatsIgnored ==
  (/\ Twice("can")
   /\ Within(call.scopes, more)
   /\ Within(more, call.scopes))
  => again = result

\* two different scopes held in the two orders, one order admitted
C22_Witness ==
  /\ Twice("can")
  /\ Len(call.scopes.a) = 2
  /\ call.scopes.a[1] # call.scopes.a[2]
  /\ more = Arr(<<call.scopes.a[2], call.scopes.a[1]>>)
  /\ call.requiredScopes = call.scopes.a[2]
  /\ result = Return(TRUE)
  /\ again = Return(TRUE)

\* C28: can is monotone in the held scopes: when every held scope of the
\* first call is held in the second, an admit stays an admit, and a cannot
\* that was false stays false
C28_Monotone ==
  (pc = "again" /\ Within(call.scopes, more))
  => /\ (call.fn = "can" /\ result = Return(TRUE)) => again = Return(TRUE)
     /\ (call.fn = "cannot" /\ result = Return(FALSE))
          => again = Return(FALSE)

\* a caller admitted on one scope is admitted with a second scope added
C28_Witness ==
  /\ Twice("can")
  /\ Len(call.scopes.a) = 1
  /\ Len(more.a) = 2
  /\ more.a[1] = call.scopes.a[1]
  /\ more.a[2] # more.a[1]
  /\ call.requiredScopes = call.scopes.a[1]
  /\ result = Return(TRUE)
  /\ again = Return(TRUE)

\* C23: in every interleaving of the callers of one guard, a call returns
\* what it returns when run alone on its own arguments (can, cannot, or
\* the registry as built), and no step of a caller changes the registry or
\* what another caller holds
C23_CallersDoNotInterfere ==
  \A c \in 1..MaxCallers :
    /\ callers[c].at = "returned" =>
         /\ callers[c].fn = "guard.can"
              => callers[c].given = can(callers[c].scopes,
                                        callers[c].requiredScopes)
         /\ callers[c].fn = "guard.cannot"
              => callers[c].given = cannot(callers[c].scopes,
                                           callers[c].requiredScopes)
         /\ callers[c].fn = "guard.permissions"
              => callers[c].required = createGuard(permissionLists)
    /\ allPermissions = createGuard(permissionLists)

\* two callers with different held scopes and the same required expression
\* have both been answered, one admitted and one denied
C23_Witness ==
  /\ callers[1].at = "returned"
  /\ callers[2].at = "returned"
  /\ callers[1].fn = "guard.can"
  /\ callers[2].fn = "guard.can"
  /\ callers[1].requiredScopes = callers[2].requiredScopes
  /\ callers[1].scopes # callers[2].scopes
  /\ callers[1].given = Return(TRUE)
  /\ callers[2].given = Return(FALSE)

\* what guard.can answers for the scopes of the provider
ProviderAllows == can(call.context.scopes, call.requiredScopes)
\* the content a Guard works with: its render prop when given, else its
\* children
Content == IF call.render # "undefined" THEN call.render ELSE call.children

\* C24: a Guard given both a render prop and children renders from the
\* render prop only: a function is called with the answer, a node is shown
\* when the permission is held and nothing otherwise, and the children are
\* never rendered
C24_RenderOverridesChildren ==
  (/\ Done("Guard")
   /\ call.render # "undefined"
   /\ call.children # "undefined")
  => /\ rendered.from # "children"
     /\ rendered.threw = "none" =>
          rendered =
            (IF call.render = "function"
             THEN Rendered("none", "render", "function", ProviderAllows.value)
             ELSE IF ProviderAllows.value /\ call.render = "node"
             THEN Rendered("none", "render", "node", FALSE)
             ELSE Nothing)

\* a render node and function children, permission not held: nothing is
\* rendered and the children are not called
C24_Witness ==
  /\ Done("Guard")
  /\ call.render = "node"
  /\ call.children = "function"
  /\ call.context.provided
  /\ ProviderAllows = Return(FALSE)
  /\ rendered = Nothing

C26_NoProviderThrows ==
  (pc = "done" /\ ~call.context.provided)
  => /\ call.fn \in {"usePermissionContext", "useGuard"}
          => result.threw = "Error"
     /\ call.fn \in {"Guard", "withPermission"}
          => rendered.threw = "Error"

\* useGuard outside a provider, for a required permission string
C26_Witness ==
  /\ Done("useGuard")
  /\ call.context = NoProvider
  /\ isString(call.requiredScopes)
  /\ call.requiredScopes.s # <<>>
  /\ result.threw = "Error"

\* C27: definePermissions and defineRole return the permissions they were
\* given, in the given order, none added, dropped or merged, and the array
\* form and the variadic form of the same permissions give equal lists
C27_DefineIsIdentity ==
  (pc = "done" /\ call.fn \in {"definePermissions", "defineRole"})
  => /\ returned = call.requiredScopes
     /\ definePermissions(Arr(<<call.requiredScopes>>))
          = definePermissions(call.requiredScopes)
     /\ defineRole(call.scopes) = definePermissions(call.scopes)

\* the array form of a list that repeats a permission
C27_Witness ==
  /\ Done("definePermissions")
  /\ call.scopes = Arr(<<call.requiredScopes>>)
  /\ Len(call.requiredScopes.a) = 2
  /\ call.requiredScopes.a[1] = call.requiredScopes.a[2]
  /\ returned = call.requiredScopes

\* C29 as stated: after every render useGuard(r) has returned
\* guard.can(scopes, r) for the scopes the provider holds at that render,
\* however the scopes have changed since the render before
C29_NeverStale ==
  (pc = "rendered" /\ call.fn = "useGuard")
  => result = can(provider.scopes, call.requiredScopes)

====
